---- MODULE Spec2Model ----
(***************************************************************************)
(* Model of gui_agents/s2/core/browser_use.py: the in-page snapshot        *)
(* (BUILD_DOM_TREE_JS: build_dom_tree, parse_node, create_selector_map,     *)
(* clickable_elements_to_string) and the BrowserUse command dispatcher     *)
(* (execute, open_url, get_element, _inject_dom_builder); the label        *)
(* placement of highlightElement; and distribute_tasks of                  *)
(* osworld_setup/s2/run_multienv.py.                                       *)
(*                                                                         *)
(* A document is a sequence of live DOM nodes; node 1 is document.body of  *)
(* the main document.  Every other node names its parent and how it hangs  *)
(* under it: "child" (parent.childNodes), "shadow"                         *)
(* (parent.shadowRoot.childNodes) or "frame"                               *)
(* (iframe.contentDocument.body.childNodes).                               *)
(***************************************************************************)
EXTENDS Integers, Sequences, FiniteSets, TLC

VARIABLES
    page,       \* the live page behind current_page: document and window state
    session,    \* BrowserUse fields: browser, browser_context, current_page
    context,    \* the caller's context dict (holds "selector_map")
    request,    \* the params of the execute call that has just returned
    response,   \* what that call returned
    effect,     \* the page operations that call performed
    snapshot,   \* the value of the last get_clickable_elements call in the page
    site,       \* the document the site serves
    geometry,   \* highlightElement: the element's rectangle, its frame, the viewport
    label,      \* highlightElement: where the label was put
    test_all_meta,      \* run_multienv.test: the tasks, domain by domain
    num_envs,           \* run_multienv.test: args.num_envs
    distributed_tasks   \* run_multienv.test: the value of distribute_tasks

\* The state of the browser session and its caller.
browser_vars == <<page, session, context, request, response, effect, snapshot, site>>

\* The state of one highlightElement call.
overlay_vars == <<geometry, label>>

\* The state of run_multienv.test.
harness_vars == <<test_all_meta, num_envs, distributed_tasks>>

vars == <<page, session, context, request, response, effect, snapshot, site,
          geometry, label, test_all_meta, num_envs, distributed_tasks>>

-----------------------------------------------------------------------------
(* Bounds *)

MaxNodes == 3        \* nodes of a document of the snapshot specification
MaxSiteNodes == 3    \* nodes of a document served to the dispatcher
MaxOverlays == 1     \* overlays left in the container when a further snapshot is taken
MaxEnvs == 3         \* environments the tasks are distributed over
MaxDomains == 2      \* domains of test_all_meta
MaxExamples == 2     \* examples of one domain

-----------------------------------------------------------------------------
(* The live DOM *)

NoAttr == "<null>"       \* getAttribute(...) === null
NoIndex == -1            \* highlightIndex undefined

Element(tag, w, h, display, visibility, role, tabindex, handler, hit) ==
    [ nodeType |-> "ELEMENT_NODE", tagName |-> tag,
      offsetWidth |-> w, offsetHeight |-> h,
      display |-> display, visibility |-> visibility,
      role |-> role, tabindex |-> tabindex, handler |-> handler,
      hit |-> hit, sameOrigin |-> TRUE, highlight_id |-> NoAttr,
      textContent |-> "", rendered |-> FALSE,
      parent |-> 0, link |-> "child" ]

Text(content, rendered) ==
    [ nodeType |-> "TEXT_NODE", tagName |-> "#text",
      offsetWidth |-> 0, offsetHeight |-> 0,
      display |-> "inline", visibility |-> "visible",
      role |-> NoAttr, tabindex |-> NoAttr, handler |-> FALSE,
      hit |-> "self", sameOrigin |-> TRUE, highlight_id |-> NoAttr,
      textContent |-> content, rendered |-> rendered,
      parent |-> 0, link |-> "child" ]

Plain(tag) == Element(tag, 10, 10, "block", "visible", NoAttr, NoAttr, FALSE, "self")

Body == Plain("body")

\* document.body of the snapshot specification: plain, or with a click handler.
BodyKinds ==
    { Body, Element("body", 10, 10, "block", "visible", NoAttr, NoAttr, TRUE, "self") }

\* The kinds of node a document of the snapshot specification is made of.
ElementKinds ==
    { Plain("button"),
      Element("button", 0, 10, "block", "visible", NoAttr, NoAttr, FALSE, "self"),
      Element("button", 10, 0, "block", "visible", NoAttr, NoAttr, FALSE, "self"),
      Element("button", 10, 10, "none", "visible", NoAttr, NoAttr, FALSE, "self"),
      Element("button", 10, 10, "block", "hidden", NoAttr, NoAttr, FALSE, "self"),
      Element("button", 10, 10, "block", "visible", NoAttr, NoAttr, FALSE, "other"),
      Plain("div"),
      Element("div", 10, 10, "block", "visible", "button", NoAttr, FALSE, "self"),
      Element("div", 10, 10, "block", "visible", NoAttr, "0", FALSE, "self"),
      Element("div", 10, 10, "block", "visible", NoAttr, "-1", FALSE, "self"),
      Element("div", 10, 10, "block", "visible", NoAttr, "-2", FALSE, "self"),
      Plain("iframe"),
      Plain("svg") }

TextKinds == { Text("t", TRUE), Text("t", FALSE), Text(" ", TRUE) }

\* The kinds of node of a document served to the dispatcher.
SiteKinds ==
    { Plain("button"), Plain("input"), Plain("div"), Plain("iframe"),
      Plain("select"), Text("t", TRUE) }

\* The page a navigation may land on instead of the site's document.
Blank == <<Body>>

IsElement(dom, n) == dom[n].nodeType = "ELEMENT_NODE"

\* Elements that may carry a shadow root (Element.attachShadow).
CanHostShadow(dom, n) == dom[n].tagName = "div"

\* Where a new node can hang in dom: <<parent, link>>.
Attach(dom) ==
    { pl \in (1..Len(dom)) \X {"child", "shadow", "frame"} :
        /\ IsElement(dom, pl[1])
        /\ dom[pl[1]].tagName # "svg"
        /\ IF dom[pl[1]].tagName = "iframe"
             THEN pl[2] = "frame"
             ELSE \/ pl[2] = "child"
                  \/ pl[2] = "shadow" /\ CanHostShadow(dom, pl[1]) }

\* A text node's content is made unique by its position in the document.
Place(dom, kind, pl) ==
    [kind EXCEPT !.parent = pl[1], !.link = pl[2],
                 !.textContent = IF kind.nodeType = "TEXT_NODE" /\ kind.textContent # " "
                                   THEN kind.textContent \o ToString(Len(dom) + 1)
                                   ELSE kind.textContent]

Extend(doms, kinds) ==
    { Append(dom, Place(dom, kind, pl)) :
        <<dom, kind, pl>> \in { t \in doms \X kinds \X ((1..MaxSiteNodes) \X {"child", "shadow", "frame"}) :
                                  t[3] \in Attach(t[1]) } }

RECURSIVE DocumentsOfSize(_, _)
DocumentsOfSize(n, kinds) ==
    IF n = 1 THEN { <<Body>> }
    ELSE Extend(DocumentsOfSize(n - 1, kinds), kinds)

SiteDocuments == UNION { DocumentsOfSize(n, SiteKinds) : n \in 1..MaxSiteNodes }

NodeIds(dom) == [i \in 1..Len(dom) |-> i]

\* parent.childNodes / parent.shadowRoot.childNodes / contentDocument.body.childNodes
childNodes(dom, p, l) ==
    SelectSeq(NodeIds(dom), LAMBDA c : dom[c].parent = p /\ dom[c].link = l)

hasShadowRoot(dom, n) == \E c \in 1..Len(dom) : dom[c].parent = n /\ dom[c].link = "shadow"

\* element.ownerDocument !== window.document
RECURSIVE InFrame(_, _)
InFrame(dom, n) ==
    IF n = 1 THEN FALSE
    ELSE dom[n].link = "frame" \/ InFrame(dom, dom[n].parent)

\* element.getRootNode() instanceof ShadowRoot
RECURSIVE InShadow(_, _)
InShadow(dom, n) ==
    IF n = 1 \/ dom[n].link = "frame" THEN FALSE
    ELSE dom[n].link = "shadow" \/ InShadow(dom, dom[n].parent)

-----------------------------------------------------------------------------
(* Element classifier *)

leafElementDenyList == {"svg", "script", "style", "link", "meta"}

isElementAccepted(el) == el.tagName \notin leafElementDenyList

interactiveElements ==
    {"a", "button", "details", "embed", "input", "label", "menu", "menuitem",
     "object", "select", "textarea", "summary"}

interactiveRoles ==
    {"button", "menu", "menuitem", "link", "checkbox", "radio", "slider", "tab",
     "tabpanel", "textbox", "combobox", "grid", "listbox", "option", "progressbar",
     "scrollbar", "searchbox", "switch", "tree", "treeitem", "spinbutton", "tooltip",
     "a-button-inner", "a-dropdown-button", "click", "menuitemcheckbox",
     "menuitemradio", "a-button-text", "button-text", "button-icon",
     "button-icon-only", "button-text-icon-only", "dropdown"}

\* hasInteractiveRole, then the handler checks (hasClickHandler, hasClickListeners).
isInteractiveElement(el) ==
    LET hasInteractiveRole ==
            \/ el.tagName \in interactiveElements
            \/ el.role \in interactiveRoles
            \/ (el.tabindex # NoAttr /\ el.tabindex # "-1")
    IN  hasInteractiveRole \/ el.handler

\* Mutant of isElementVisible: the rendered width is not looked at.
isElementVisibleAnyWidth(el) ==
    /\ el.offsetHeight > 0
    /\ el.visibility # "hidden"
    /\ el.display # "none"

isElementVisible(el) ==
    /\ el.offsetWidth > 0
    /\ el.offsetHeight > 0
    /\ el.visibility # "hidden"
    /\ el.display # "none"

\* el.hit is what elementFromPoint answers at the element's centre: "self" (the
\* element or one of its descendants), "other", "null", or "throws".
HitTest(el) ==
    CASE el.hit = "throws" -> TRUE
      [] el.hit = "null"   -> FALSE
      [] el.hit = "self"   -> TRUE
      [] OTHER             -> FALSE

isTopElement(dom, n) ==
    IF InFrame(dom, n) THEN TRUE
    ELSE IF InShadow(dom, n) THEN HitTest(dom[n])
    ELSE HitTest(dom[n])

isTextNodeVisible(node) == node.rendered

\* String.prototype.trim of the modelled contents.
Trim(s) == IF s = " " THEN "" ELSE IF s = " a " THEN "a" ELSE s

-----------------------------------------------------------------------------
(* Locators *)

\* The number of previous siblings of n that are elements of the same nodeName.
SameTagBefore(dom, n) ==
    Cardinality({ s \in 1..(n - 1) :
                    /\ dom[s].parent = dom[n].parent
                    /\ dom[s].link = dom[n].link
                    /\ IsElement(dom, s)
                    /\ dom[s].tagName = dom[n].tagName })

XPathSegment(tag, index) ==
    IF index > 0 THEN tag \o "[" \o ToString(index + 1) \o "]" ELSE tag

\* getXPathTree(element, true); the path is the sequence of its '/'-joined segments.
RECURSIVE getXPathTree(_, _)
getXPathTree(dom, n) ==
    IF n # 1 /\ dom[n].link = "shadow" THEN << >>
    ELSE LET above == IF n = 1 THEN <<"html">>
                      ELSE IF dom[n].link = "frame" THEN <<"html", "body">>
                      ELSE getXPathTree(dom, dom[n].parent)
         IN  Append(above, XPathSegment(dom[n].tagName, SameTagBefore(dom, n)))

-----------------------------------------------------------------------------
(* Snapshot builder.  The traversal threads st: the document (attributes are  *)
(* written while walking), the highlightIndex counter, the nodeData built so  *)
(* far (keyed by DOM node), window.clickable_elements and the overlay         *)
(* container.                                                                 *)

NoContainer == [present |-> FALSE, overlays |-> << >>]

\* highlightElement(element, index, parentIframe): create the container when
\* absent, append the overlay and its label, mark the element.
highlightElement(n, index, st) ==
    [st EXCEPT !.container = [present |-> TRUE, overlays |-> Append(@.overlays, index)],
               !.dom[n].highlight_id = "playwright-highlight-" \o ToString(index)]

TextData(text) ==
    [ type |-> "TEXT_NODE", tagName |-> NoAttr, text |-> text, isVisible |-> TRUE,
      attributes |-> [role |-> NoAttr, tabindex |-> NoAttr, highlight_id |-> NoAttr],
      xpath |-> << >>, children |-> << >>, isInteractive |-> FALSE,
      isTopElement |-> FALSE, highlightIndex |-> NoIndex, shadowRoot |-> FALSE,
      parent |-> 0 ]

\* The highlight test of buildDomTree.
Qualifies(isInteractive, isVisible, isTop) == isInteractive /\ isVisible /\ isTop

\* Mutant of NextIndex: the counter is not advanced.
NextIndexStuck(highlightIndex) == highlightIndex

\* highlightIndex++
NextIndex(highlightIndex) == highlightIndex + 1

RECURSIVE buildDomTree(_, _), buildChildren(_, _, _)

\* children.map(child => buildDomTree(child, ...)): results in order, 0 for null.
buildChildren(children, i, st) ==
    IF i > Len(children) THEN [results |-> << >>, st |-> st]
    ELSE LET first == buildDomTree(children[i], st)
             rest == buildChildren(children, i + 1, first.st)
         IN  [results |-> <<first.result>> \o rest.results, st |-> rest.st]

\* buildDomTree(node, parentIframe): result is the node when nodeData is
\* returned and 0 when null is.
buildDomTree(n, st) ==
    LET node == st.dom[n] IN
    IF node.nodeType = "TEXT_NODE"
    THEN LET textContent == Trim(node.textContent) IN
         IF textContent # "" /\ isTextNodeVisible(node)
         THEN [result |-> n, st |-> [st EXCEPT !.tree = (n :> TextData(textContent)) @@ @]]
         ELSE [result |-> 0, st |-> st]
    ELSE IF ~isElementAccepted(node)
    THEN [result |-> 0, st |-> st]
    ELSE
      LET isInteractive == isInteractiveElement(node)
          isVisible == isElementVisible(node)
          isTop == isTopElement(st.dom, n)
          assign == Qualifies(isInteractive, isVisible, isTop)
          index == IF assign THEN st.highlightIndex ELSE NoIndex
          st1 == IF assign
                 THEN [st EXCEPT !.highlightIndex = NextIndex(@),
                                 !.clickable_elements = (index :> n) @@ @]
                 ELSE st
          st2 == IF assign /\ st.doHighlightElements
                 THEN highlightElement(n, index, st1)
                 ELSE st1
          shadow == IF hasShadowRoot(st.dom, n)
                    THEN buildChildren(childNodes(st.dom, n, "shadow"), 1, st2)
                    ELSE [results |-> << >>, st |-> st2]
          below == IF node.tagName = "iframe"
                   THEN IF node.sameOrigin
                        THEN buildChildren(childNodes(st.dom, n, "frame"), 1, shadow.st)
                        ELSE [results |-> << >>, st |-> shadow.st]
                   ELSE buildChildren(childNodes(st.dom, n, "child"), 1, shadow.st)
          nodeData ==
            [ type |-> "ELEMENT_NODE", tagName |-> node.tagName, text |-> NoAttr,
              isVisible |-> isVisible,
              attributes |-> [role |-> node.role, tabindex |-> node.tabindex,
                              highlight_id |-> node.highlight_id],
              xpath |-> getXPathTree(st.dom, n),
              children |-> shadow.results \o below.results,
              isInteractive |-> isInteractive, isTopElement |-> isTop,
              highlightIndex |-> index, shadowRoot |-> hasShadowRoot(st.dom, n),
              parent |-> 0 ]
      IN  [result |-> n, st |-> [below.st EXCEPT !.tree = (n :> nodeData) @@ @]]

\* build_dom_tree(doHighlightElements): the counter restarts at 0 and the walk
\* starts at document.body.
build_dom_tree(doHighlightElements, dom, container, clickable_elements) ==
    buildDomTree(1, [ dom |-> dom, highlightIndex |-> 0, tree |-> << >>,
                      clickable_elements |-> clickable_elements,
                      container |-> container,
                      doHighlightElements |-> doHighlightElements ])

-----------------------------------------------------------------------------
(* Element tree, selector map, serializer *)

\* parse_node(node_data, parent): null children are dropped and every node gets
\* its parent.  The tree stays keyed by DOM node; its root is node 1.
parse_node(page_tree) ==
    [ n \in DOMAIN page_tree |->
        [ page_tree[n] EXCEPT
            !.children = SelectSeq(@, LAMBDA c : c # 0),
            !.parent = IF \E p \in DOMAIN page_tree :
                               \E i \in 1..Len(page_tree[p].children) :
                                   page_tree[p].children[i] = n
                         THEN CHOOSE p \in DOMAIN page_tree :
                                  \E i \in 1..Len(page_tree[p].children) :
                                      page_tree[p].children[i] = n
                         ELSE 0 ] ]

IsElementNode(nd) == nd.tagName # NoAttr

RECURSIVE selector_process_node(_, _, _), selector_process_children(_, _, _, _)

selector_process_children(element_tree, children, i, selector_map) ==
    IF i > Len(children) THEN selector_map
    ELSE selector_process_children(element_tree, children, i + 1,
             selector_process_node(element_tree, children[i], selector_map))

\* process_node of create_selector_map
selector_process_node(element_tree, n, selector_map) ==
    LET node == element_tree[n] IN
    IF IsElementNode(node)
    THEN LET here == IF node.highlightIndex # NoIndex
                     THEN (node.highlightIndex :>
                              [xpath |-> node.xpath, tagName |-> node.tagName])
                          @@ selector_map
                     ELSE selector_map
         IN  selector_process_children(element_tree, node.children, 1, here)
    ELSE selector_map

create_selector_map(element_tree) == selector_process_node(element_tree, 1, << >>)

\* Mutant of IsNextClickable: the walk never stops at a nested indexed element.
IsNextClickableNever(element_tree, element_node, n) == FALSE

\* node.tagName && node != element_node && node.highlightIndex != null
IsNextClickable(element_tree, element_node, n) ==
    /\ IsElementNode(element_tree[n])
    /\ n # element_node
    /\ element_tree[n].highlightIndex # NoIndex

RECURSIVE collect_text(_, _, _, _), collect_children(_, _, _, _, _)

collect_children(element_tree, element_node, children, i, text_parts) ==
    IF i > Len(children) THEN text_parts
    ELSE collect_children(element_tree, element_node, children, i + 1,
             collect_text(element_tree, element_node, children[i], text_parts))

\* collect_text of get_all_text_till_next_clickable_element
collect_text(element_tree, element_node, n, text_parts) ==
    LET node == element_tree[n] IN
    IF IsNextClickable(element_tree, element_node, n)
    THEN text_parts
    ELSE IF ~IsElementNode(node) /\ node.text # ""
    THEN Append(text_parts, node.text)
    ELSE IF IsElementNode(node)
    THEN collect_children(element_tree, element_node, node.children, 1, text_parts)
    ELSE text_parts

\* The text parts, which the code joins into one line of text.
get_all_text_till_next_clickable_element(element_tree, element_node) ==
    collect_text(element_tree, element_node, element_node, << >>)

RECURSIVE has_parent_with_highlight_index_from(_, _)
has_parent_with_highlight_index_from(element_tree, current) ==
    IF current = 0 THEN FALSE
    ELSE IF element_tree[current].highlightIndex # NoIndex THEN TRUE
    ELSE has_parent_with_highlight_index_from(element_tree, element_tree[current].parent)

has_parent_with_highlight_index(element_tree, n) ==
    has_parent_with_highlight_index_from(element_tree, element_tree[n].parent)

\* The attributes of the modelled elements that are in the default
\* includeAttributes list, in its order; an absent or empty value is skipped.
attributes_str(node) ==
    (IF node.attributes.role \notin {NoAttr, ""}
       THEN <<<<"role", node.attributes.role>>>> ELSE << >>)
    \o (IF node.attributes.tabindex \notin {NoAttr, ""}
          THEN <<<<"tabindex", node.attributes.tabindex>>>> ELSE << >>)

\* `[${index}]:<${tagName}${attributes_str}>${text}</${tagName}>`
IndexedLine(node, text) ==
    [ index |-> node.highlightIndex, tagName |-> node.tagName,
      attributes |-> attributes_str(node), text |-> text ]

\* `[]:${node.text}`
BareLine(node) ==
    [ index |-> NoIndex, tagName |-> "", attributes |-> << >>, text |-> <<node.text>> ]

RECURSIVE process_node(_, _, _), process_children(_, _, _, _)

process_children(element_tree, children, i, formatted_text) ==
    IF i > Len(children) THEN formatted_text
    ELSE process_children(element_tree, children, i + 1,
             process_node(element_tree, children[i], formatted_text))

\* process_node of clickable_elements_to_string
process_node(element_tree, n, formatted_text) ==
    LET node == element_tree[n] IN
    IF node.text = NoAttr
    THEN LET here == IF node.highlightIndex # NoIndex
                     THEN Append(formatted_text,
                            IndexedLine(node,
                              get_all_text_till_next_clickable_element(element_tree, n)))
                     ELSE formatted_text
         IN  process_children(element_tree, node.children, 1, here)
    ELSE IF ~has_parent_with_highlight_index(element_tree, n)
    THEN Append(formatted_text, BareLine(node))
    ELSE formatted_text

\* The lines, which the code joins with '\n'.
clickable_elements_to_string(element_tree) == process_node(element_tree, 1, << >>)

\* get_clickable_elements(doHighlightElements): the value returned and the
\* window state left behind.
get_clickable_elements(doHighlightElements, win) ==
    LET built == build_dom_tree(doHighlightElements, win.dom, win.container, << >>)
        page_tree == built.st.tree
        element_tree == parse_node(page_tree)
    IN  [ element_str |-> clickable_elements_to_string(element_tree),
          selector_map |-> create_selector_map(element_tree),
          element_tree |-> element_tree,
          highlightIndex |-> built.st.highlightIndex,
          win |-> [win EXCEPT !.dom = built.st.dom,
                              !.container = built.st.container,
                              !.clickable_elements = built.st.clickable_elements,
                              !.clickable_defined = TRUE] ]

\* Mutant of remove_highlight: the overlays are removed, their container stays.
remove_highlight_overlays_only(win) ==
    [win EXCEPT !.container.overlays = << >>]

\* remove_highlight()
remove_highlight(win) ==
    IF win.container.present THEN [win EXCEPT !.container = NoContainer] ELSE win

\* A freshly loaded document: none of the snapshot functions, no overlay.
NewWindow(dom) ==
    [ dom |-> dom, functions |-> FALSE, clickable_defined |-> FALSE,
      clickable_elements |-> << >>, container |-> NoContainer ]

-----------------------------------------------------------------------------
(* Requests, responses *)

NoText == "<absent>"     \* "text" not in params

Request(action, index, text) == [action |-> action, index |-> index, text |-> text]

NoRequest == Request("", NoIndex, NoText)

\* {"success": ..., "error": ..., ...}: error is NoAttr when the key is absent; a
\* snapshot response carries the text and an image.
Response(success, error) ==
    [ success |-> success, error |-> error, text |-> << >>, image |-> FALSE ]

NoResponse == Response(FALSE, NoAttr)

NoSnapshot ==
    [ taken |-> FALSE, element_tree |-> << >>, element_str |-> << >>,
      selector_map |-> << >>, highlightIndex |-> 0 ]

\* What a get_clickable_elements call computed: the tree, the two values it
\* returns and the counter at the end of the walk.
Snapshot(r) ==
    [ taken |-> TRUE, element_tree |-> r.element_tree, element_str |-> r.element_str,
      selector_map |-> r.selector_map, highlightIndex |-> r.highlightIndex ]

NoEffect == [ops |-> << >>, target |-> -1]

\* BrowserUse() before create(): no browser, no browsing context, no page, no
\* driver.  closed and stopped count the browser.close() and playwright.stop()
\* calls made so far, destroys the destroy calls.
NoSession ==
    [ browser |-> FALSE, browser_context |-> FALSE, current_page |-> 0, pages |-> 0,
      playwright |-> "none", closed |-> 0, stopped |-> 0, destroys |-> 0 ]

\* The session create() returns.
\* No highlightElement call is under study.
NoGeometry == [rect |-> [top |-> 0, left |-> 0, width |-> 0, height |-> 0],
               iframeRect |-> [top |-> 0, left |-> 0],
               innerWidth |-> 0, innerHeight |-> 0]

NoLabel == [drawn |-> FALSE, top |-> 0, left |-> 0]

NoOverlayCall == geometry = NoGeometry /\ label = NoLabel

\* distribute_tasks has not been called.
NotDistributed == [done |-> FALSE, envs |-> << >>]

\* run_multienv is not running.
NoHarness ==
    /\ test_all_meta = << >>
    /\ num_envs = 1
    /\ distributed_tasks = NotDistributed

Created ==
    [NoSession EXCEPT !.playwright = "started", !.browser = TRUE,
                      !.browser_context = TRUE]

-----------------------------------------------------------------------------
(* The snapshot functions on their own, as tests/test_build_dom_tree.py runs  *)
(* them: installed by an init script, then called through page.evaluate.      *)

SnapshotInit ==
    /\ site \in { <<body>> : body \in BodyKinds }
    /\ page = [NewWindow(site) EXCEPT !.functions = TRUE]
    /\ session = [Created EXCEPT !.current_page = 1, !.pages = 1]
    /\ context = [selector_map |-> << >>]
    /\ request = NoRequest
    /\ response = NoResponse
    /\ effect = NoEffect
    /\ snapshot = NoSnapshot
    /\ NoOverlayCall
    /\ NoHarness

\* The page under test builds its document, node by node, before it is looked at.
AppendNode ==
    /\ ~snapshot.taken
    /\ Len(page.dom) < MaxNodes
    /\ \E kind \in ElementKinds \cup TextKinds, pl \in Attach(page.dom) :
         page' = [page EXCEPT !.dom = Append(@, Place(@, kind, pl))]
    /\ UNCHANGED <<session, context, request, response, effect, snapshot, site>>
    /\ UNCHANGED <<overlay_vars, harness_vars>>

\* page.evaluate("() => window.get_clickable_elements(true, ...)")
EvaluateGetClickableElements ==
    /\ page.functions
    /\ Len(page.container.overlays) <= MaxOverlays
    /\ LET r == get_clickable_elements(TRUE, page) IN
         /\ page' = r.win
         /\ snapshot' = Snapshot(r)
    /\ UNCHANGED <<session, context, request, response, effect, site>>
    /\ UNCHANGED <<overlay_vars, harness_vars>>

\* page.evaluate("window.remove_highlight()")
EvaluateRemoveHighlight ==
    /\ page.functions
    /\ page' = remove_highlight(page)
    /\ UNCHANGED <<session, context, request, response, effect, snapshot, site>>
    /\ UNCHANGED <<overlay_vars, harness_vars>>

SnapshotNext == AppendNode \/ EvaluateGetClickableElements \/ EvaluateRemoveHighlight

SnapshotSpec == SnapshotInit /\ [][SnapshotNext]_vars

-----------------------------------------------------------------------------
(* Locator resolution: Playwright's "xpath=" selector and document.evaluate,  *)
(* both from the main document's root; neither enters a shadow root or a      *)
(* frame.  Node 0 stands for the html element, NoNode for null.               *)

NoNode == -1

XPathTag(dom, n) == IF n = 0 THEN "html" ELSE dom[n].tagName

XPathPosition(dom, n) == IF n = 0 THEN 1 ELSE SameTagBefore(dom, n) + 1

\* The element children of a context node; the document node is NoNode.
XPathChildren(dom, ctx) ==
    IF ctx = NoNode THEN <<0>>
    ELSE IF ctx = 0 THEN <<1>>
    ELSE SelectSeq(childNodes(dom, ctx, "child"), LAMBDA c : IsElement(dom, c))

\* The step "tag" selects every child of that name, "tag[k]" the k-th of them.
XPathStep(dom, n, segment) ==
    \/ segment = XPathTag(dom, n)
    \/ segment = XPathTag(dom, n) \o "[" \o ToString(XPathPosition(dom, n)) \o "]"

RECURSIVE XPathFrom(_, _, _, _), XPathFromEach(_, _, _, _, _)

XPathFromEach(dom, children, j, path, i) ==
    IF j > Len(children) THEN << >>
    ELSE (IF XPathStep(dom, children[j], path[i])
            THEN XPathFrom(dom, children[j], path, i + 1)
            ELSE << >>)
         \o XPathFromEach(dom, children, j + 1, path, i)

\* The nodes path[i..] selects below ctx, in document order.
XPathFrom(dom, ctx, path, i) ==
    IF i > Len(path) THEN <<ctx>>
    ELSE XPathFromEach(dom, XPathChildren(dom, ctx), 1, path, i)

\* page.query_selector(f"xpath={xpath}"): the first match, or None.
query_selector(dom, xpath) ==
    LET found == XPathFrom(dom, NoNode, xpath, 1)
    IN  IF xpath # << >> /\ found # << >> THEN found[1] ELSE NoNode

-----------------------------------------------------------------------------
(* BrowserUse *)

MaxPages == 2        \* pages opened in the browsing context
MaxDestroys == 2     \* destroy calls on a session

Actions ==
    {"open_url", "input_text", "click", "right_click", "double_click", "scroll_to",
     "extract_content", "get_dropdown_options", "select_dropdown_option",
     "screenshot_extract_element"}

NoAction == "<absent>"        \* "action" not in params

\* The indices a snapshot of a site can hand out (body gets none); all of them
\* are strays while the selector map is empty, the last on all but the fullest
\* sites.
Indices == 0..(MaxSiteNodes - 2)

\* select.options of every select element of a site, by text.
options(el) == IF el.tagName = "select" THEN <<" a ", "b">> ELSE << >>

\* The requests sent to execute: a text goes with the commands that read it,
\* an option's text with select_dropdown_option.
Requests ==
    { r \in [action : Actions \cup {"hover", NoAction},
             index : {NoIndex} \cup Indices,
             text : {NoText, "x", "a"}] :
        /\ r.text # NoText =>
              r.action \in {"open_url", "input_text", "select_dropdown_option"}
        /\ r.text = "a" => r.action = "select_dropdown_option" }

\* What a call leaves behind: its response and the new state.
Outcome(resp, self, ctx, win, snap, ops, target) ==
    [ response |-> resp, session |-> self, context |-> ctx, page |-> win,
      snapshot |-> snap, effect |-> [ops |-> ops, target |-> target] ]

\* Mutant of Raised: the exception leaves execute instead of a response.
RaisedUncaught(error, self, ctx, win, snap, ops) ==
    Outcome([exception |-> error], self, ctx, win, snap, ops, NoNode)

\* except Exception as e: return {"success": False, "error": str(e)}
Raised(error, self, ctx, win, snap, ops) ==
    Outcome(Response(FALSE, error), self, ctx, win, snap, ops, NoNode)

\* if result: {"success": True, ...} else: {"success": False}
Returned(result, self, ctx, win, snap, ops, target) ==
    Outcome(Response(result, NoAttr), self, ctx, win, snap, ops, target)

NoneHasNo(attribute) == "'NoneType' object has no attribute '" \o attribute \o "'"

\* The index lookup at the head of execute: selector_xpath, << >> standing for
\* None, and whether "Element does not exist" was raised.
selector_lookup(params, ctx) ==
    IF params.index # NoIndex /\ DOMAIN ctx.selector_map # {}
    THEN LET selector_xpath == IF params.index \in DOMAIN ctx.selector_map
                               THEN ctx.selector_map[params.index].xpath
                               ELSE << >>
         IN  [raised |-> selector_xpath = << >>, selector_xpath |-> selector_xpath]
    ELSE [raised |-> FALSE, selector_xpath |-> << >>]

\* ElementHandle.fill accepts the elements that take text.
Fillable(el) == el.tagName \in {"input", "textarea"}

\* Mutant of open_url: the new page becomes the current page before the
\* navigation, so a failed navigation leaves it as the current page.
open_url_assigning_first(params, self, ctx, win, snap, env) ==
    IF params.text = NoText
    THEN Raised("text (url) parameter is required", self, ctx, win, snap, << >>)
    ELSE IF ~self.browser_context
    THEN Raised(NoneHasNo("new_page"), self, ctx, win, snap, << >>)
    ELSE LET opened == [self EXCEPT !.pages = @ + 1, !.current_page = self.pages + 1] IN
         IF ~env.goto_ok
         THEN Raised("Timeout 15000ms exceeded.", opened, ctx, NewWindow(Blank), snap,
                     <<"new_page", "goto">>)
         ELSE Returned(TRUE, opened, ctx,
                       NewWindow(env.document), NoSnapshot,
                       <<"new_page", "goto", "wait_for_load_state", "title">>, NoNode)

\* open_url(context, url) and the open_url branch of execute.
open_url(params, self, ctx, win, snap, env) ==
    IF params.text = NoText
    THEN Raised("text (url) parameter is required", self, ctx, win, snap, << >>)
    ELSE IF ~self.browser_context
    THEN Raised(NoneHasNo("new_page"), self, ctx, win, snap, << >>)
    ELSE LET opened == [self EXCEPT !.pages = @ + 1] IN
         IF ~env.goto_ok
         THEN Raised("Timeout 15000ms exceeded.", opened, ctx, win, snap,
                     <<"new_page", "goto">>)
         ELSE Returned(TRUE, [opened EXCEPT !.current_page = opened.pages], ctx,
                       NewWindow(env.document), NoSnapshot,
                       <<"new_page", "goto", "wait_for_load_state", "title">>, NoNode)

\* the input_text branch of execute, with get_element
input_text(params, selector_xpath, self, ctx, win, snap) ==
    IF params.index = NoIndex
    THEN Raised("index parameter is required", self, ctx, win, snap, << >>)
    ELSE IF params.text = NoText
    THEN Raised("text parameter is required", self, ctx, win, snap, << >>)
    ELSE IF selector_xpath = << >>
    THEN Returned(FALSE, self, ctx, win, snap, << >>, NoNode)
    ELSE IF self.current_page = 0
    THEN Raised(NoneHasNo("query_selector"), self, ctx, win, snap, << >>)
    ELSE LET element == query_selector(win.dom, selector_xpath) IN
         IF element = NoNode
         THEN Returned(FALSE, self, ctx, win, snap, <<"query_selector">>, NoNode)
         ELSE IF element = 0 \/ ~Fillable(win.dom[element])
         THEN Raised("Element is not an <input>, <textarea> or [contenteditable] element",
                     self, ctx, win, snap, <<"query_selector", "fill">>)
         ELSE Returned(TRUE, self, ctx, win, snap,
                       <<"query_selector", "fill", "fill">>, element)

\* the click / right_click / double_click branch of execute, with get_element
click(params, selector_xpath, self, ctx, win, snap) ==
    IF params.index = NoIndex
    THEN Raised("index parameter is required", self, ctx, win, snap, << >>)
    ELSE IF selector_xpath = << >>
    THEN Returned(FALSE, self, ctx, win, snap, << >>, NoNode)
    ELSE IF self.current_page = 0
    THEN Raised(NoneHasNo("query_selector"), self, ctx, win, snap, << >>)
    ELSE LET element == query_selector(win.dom, selector_xpath) IN
         IF element = NoNode
         THEN Returned(FALSE, self, ctx, win, snap, <<"query_selector">>, NoNode)
         ELSE Returned(TRUE, self, ctx, win, snap,
                       <<"query_selector",
                         IF params.action = "double_click" THEN "dblclick" ELSE "click">>,
                       element)

\* the scroll_to branch of execute; f"xpath={None}" is the path "None"
scroll_to(params, selector_xpath, self, ctx, win, snap) ==
    IF params.index = NoIndex
    THEN Raised("index parameter is required", self, ctx, win, snap, << >>)
    ELSE IF self.current_page = 0
    THEN Raised(NoneHasNo("eval_on_selector"), self, ctx, win, snap, << >>)
    ELSE LET element == query_selector(win.dom,
                            IF selector_xpath = << >> THEN <<"None">> ELSE selector_xpath)
         IN  IF element = NoNode
             THEN Raised("Failed to find element matching selector", self, ctx, win, snap,
                         <<"eval_on_selector">>)
             ELSE Returned(TRUE, self, ctx, win, snap, <<"eval_on_selector">>, element)

\* the extract_content branch of execute, with extract_html_content
extract_content(params, self, ctx, win, snap) ==
    IF self.current_page = 0
    THEN Raised(NoneHasNo("evaluate"), self, ctx, win, snap, << >>)
    ELSE Returned(TRUE, self, ctx, win, snap, <<"evaluate", "title">>, NoNode)

\* get_dropdown_options(page, xpath) and its branch of execute; document.evaluate
\* of null looks for the path "null"
get_dropdown_options(params, selector_xpath, self, ctx, win, snap) ==
    IF params.index = NoIndex
    THEN Raised("index parameter is required", self, ctx, win, snap, << >>)
    ELSE IF self.current_page = 0
    THEN Raised(NoneHasNo("evaluate"), self, ctx, win, snap, << >>)
    ELSE LET select == query_selector(win.dom,
                           IF selector_xpath = << >> THEN <<"null">> ELSE selector_xpath)
         IN  IF select = NoNode
             THEN Returned(FALSE, self, ctx, win, snap, <<"evaluate">>, NoNode)
             ELSE IF XPathTag(win.dom, select) # "select"
             THEN Raised("TypeError: undefined is not iterable", self, ctx, win, snap,
                         <<"evaluate">>)
             ELSE Returned(TRUE, self, ctx, win, snap, <<"evaluate">>, select)

\* select_dropdown_option(page, xpath, text) and its branch of execute:
\* page.evaluate(script, xpath, text) passes one positional argument more than
\* Page.evaluate(expression, arg) takes.
select_dropdown_option(params, selector_xpath, self, ctx, win, snap) ==
    IF params.index = NoIndex
    THEN Raised("index parameter is required", self, ctx, win, snap, << >>)
    ELSE IF params.text = NoText
    THEN Raised("text parameter is required", self, ctx, win, snap, << >>)
    ELSE IF self.current_page = 0
    THEN Raised(NoneHasNo("evaluate"), self, ctx, win, snap, << >>)
    ELSE Raised("evaluate() takes from 2 to 3 positional arguments but 4 were given",
                self, ctx, win, snap, << >>)

\* get_highlight_element(highlightIndex) called without an argument: reading a
\* property of window.clickable_elements throws while it is undefined.
get_highlight_element_throws(win) == ~win.clickable_defined

\* The page calls that install the snapshot functions, after the marker test:
\* evaluate_handle("window"), evaluate(BUILD_DOM_TREE_JS, window) and the
\* get_highlight_element call.
InstallOps == <<"evaluate_handle", "evaluate", "evaluate">>

\* Mutant of inject_dom_builder: the marker is not tested, the functions are
\* installed on every call.
inject_dom_builder_always(win) ==
    LET installed == [win EXCEPT !.functions = TRUE]
    IN  [ win |-> installed, raised |-> get_highlight_element_throws(installed),
          ops |-> <<"evaluate">> \o InstallOps ]

\* _inject_dom_builder past _ensure_page: the window it leaves, whether its
\* last evaluate raised, and the page calls it made.
inject_dom_builder(win) ==
    IF ~win.functions
    THEN LET installed == [win EXCEPT !.functions = TRUE]
         IN  [ win |-> installed, raised |-> get_highlight_element_throws(installed),
               ops |-> <<"evaluate">> \o InstallOps ]
    ELSE [win |-> win, raised |-> FALSE, ops |-> <<"evaluate">>]

\* Mutant of capture: the snapshot's entries are merged into the session's map.
capture_merging(element_result, ops, self, ctx, env) ==
    LET merged == [ctx EXCEPT !.selector_map = element_result.selector_map @@ @] IN
    IF ~env.screenshot_ok
    THEN Raised("Page.screenshot: Timeout exceeded", self, merged,
                element_result.win, Snapshot(element_result),
                ops \o <<"evaluate", "screenshot">>)
    ELSE Outcome([Response(TRUE, NoAttr) EXCEPT !.text = element_result.element_str,
                                                !.image = TRUE],
                 self, merged,
                 remove_highlight(element_result.win), Snapshot(element_result),
                 ops \o <<"evaluate", "screenshot", "evaluate">>, NoNode)

\* the screenshot_extract_element branch of execute from the assignment of
\* context["selector_map"] on: the capture, remove_highlight, the result
capture(element_result, ops, self, ctx, env) ==
    IF ~env.screenshot_ok
    THEN Raised("Page.screenshot: Timeout exceeded", self,
                [ctx EXCEPT !.selector_map = element_result.selector_map],
                element_result.win, Snapshot(element_result),
                ops \o <<"evaluate", "screenshot">>)
    ELSE Outcome([Response(TRUE, NoAttr) EXCEPT !.text = element_result.element_str,
                                                !.image = TRUE],
                 self, [ctx EXCEPT !.selector_map = element_result.selector_map],
                 remove_highlight(element_result.win), Snapshot(element_result),
                 ops \o <<"evaluate", "screenshot", "evaluate">>, NoNode)

\* the screenshot_extract_element branch of execute
screenshot_extract_element(params, self, ctx, win, snap, env) ==
    IF self.current_page = 0
    THEN Raised("No page open; call open_url first.", self, ctx, win, snap, << >>)
    ELSE LET injected == inject_dom_builder(win) IN
         IF injected.raised
         THEN Raised("TypeError: Cannot read properties of undefined", self, ctx,
                     injected.win, snap, injected.ops)
         ELSE capture(get_clickable_elements(TRUE, injected.win), injected.ops,
                      self, ctx, env)

\* BrowserUse.execute(context, params)
execute(params, self, ctx, win, snap, env) ==
    IF params.action = NoAction
    THEN Raised("Invalid parameters. Expected an object with an \"action\" property.",
                self, ctx, win, snap, << >>)
    ELSE LET lookup == selector_lookup(params, ctx)
             selector_xpath == lookup.selector_xpath
         IN
         IF lookup.raised
         THEN Raised("Element does not exist", self, ctx, win, snap, << >>)
         ELSE CASE params.action = "open_url" ->
                     open_url(params, self, ctx, win, snap, env)
                [] params.action = "input_text" ->
                     input_text(params, selector_xpath, self, ctx, win, snap)
                [] params.action \in {"click", "right_click", "double_click"} ->
                     click(params, selector_xpath, self, ctx, win, snap)
                [] params.action = "scroll_to" ->
                     scroll_to(params, selector_xpath, self, ctx, win, snap)
                [] params.action = "extract_content" ->
                     extract_content(params, self, ctx, win, snap)
                [] params.action = "get_dropdown_options" ->
                     get_dropdown_options(params, selector_xpath, self, ctx, win, snap)
                [] params.action = "select_dropdown_option" ->
                     select_dropdown_option(params, selector_xpath, self, ctx, win, snap)
                [] params.action = "screenshot_extract_element" ->
                     screenshot_extract_element(params, self, ctx, win, snap, env)
                [] OTHER ->
                     Raised("Invalid action: \"" \o params.action \o "\" is not recognized.",
                            self, ctx, win, snap, << >>)

-----------------------------------------------------------------------------
(* The dispatcher: one execute call at a time on a session made by create().  *)

Init ==
    /\ site \in SiteDocuments
    /\ page = NewWindow(Blank)
    /\ session \in {Created, NoSession}
    /\ context = [selector_map |-> << >>]
    /\ request = NoRequest
    /\ response = NoResponse
    /\ effect = NoEffect
    /\ snapshot = NoSnapshot
    /\ NoOverlayCall
    /\ NoHarness

\* The environment of a call: whether page.goto and page.screenshot succeed and
\* the document the navigation loads.
Fine == [goto_ok |-> TRUE, screenshot_ok |-> TRUE, document |-> site]

\* The state a call leaves and the response it returns.
Return(out) ==
    /\ page' = out.page
    /\ session' = out.session
    /\ context' = out.context
    /\ snapshot' = out.snapshot
    /\ response' = out.response
    /\ effect' = out.effect

\* One call of execute(context, params) in environment env; the caller awaits
\* each call and reads its result before the next.
Execute(params, env) ==
    /\ request = NoRequest
    /\ Return(execute(params, session, context, page, snapshot, env))
    /\ request' = params
    /\ UNCHANGED <<site, overlay_vars, harness_vars>>

\* The caller takes the result of the call.
Receive ==
    /\ request # NoRequest
    /\ request' = NoRequest
    /\ response' = NoResponse
    /\ effect' = NoEffect
    /\ UNCHANGED <<page, session, context, snapshot, site>>
    /\ UNCHANGED <<overlay_vars, harness_vars>>

\* Mutant of destroy: the browser is closed and the driver stopped whether or
\* not the session still holds a browser.
destroy_unguarded(self, ctx) ==
    [ session |-> [self EXCEPT !.browser = FALSE, !.current_page = 0,
                               !.browser_context = FALSE, !.pages = 0,
                               !.closed = @ + 1, !.playwright = "stopped",
                               !.stopped = @ + 1, !.destroys = @ + 1],
      context |-> [ctx EXCEPT !.selector_map = << >>] ]

\* destroy(context): the selector map is deleted; a session that holds a
\* browser closes it (and with it every page), forgets page and browsing
\* context and stops the driver create() started.
destroy(self, ctx) ==
    [ session |-> IF self.browser
                  THEN [self EXCEPT !.browser = FALSE, !.current_page = 0,
                                    !.browser_context = FALSE, !.pages = 0,
                                    !.closed = @ + 1, !.playwright = "stopped",
                                    !.stopped = @ + 1, !.destroys = @ + 1]
                  ELSE [self EXCEPT !.destroys = @ + 1],
      context |-> [ctx EXCEPT !.selector_map = << >>] ]

\* destroy(context), called between two commands; closing the browser takes
\* the open page with it.
Destroy ==
    /\ request = NoRequest
    /\ session.destroys < MaxDestroys
    /\ LET out == destroy(session, context) IN
         /\ session' = out.session
         /\ context' = out.context
         /\ page' = IF session.browser THEN NewWindow(Blank) ELSE page
         /\ snapshot' = IF session.browser THEN NoSnapshot ELSE snapshot
    /\ UNCHANGED <<request, response, effect, site>>
    /\ UNCHANGED <<overlay_vars, harness_vars>>

OpenUrl ==
    /\ session.pages < MaxPages
    /\ \E params \in Requests, goto_ok \in BOOLEAN, document \in {site, Blank} :
         /\ params.action = "open_url"
         /\ Execute(params, [Fine EXCEPT !.goto_ok = goto_ok, !.document = document])

InputText ==
    \E params \in Requests : params.action = "input_text" /\ Execute(params, Fine)

Click ==
    \E params \in Requests :
        /\ params.action \in {"click", "right_click", "double_click"}
        /\ Execute(params, Fine)

ScrollTo ==
    \E params \in Requests : params.action = "scroll_to" /\ Execute(params, Fine)

ExtractContent ==
    \E params \in Requests : params.action = "extract_content" /\ Execute(params, Fine)

GetDropdownOptions ==
    \E params \in Requests : params.action = "get_dropdown_options" /\ Execute(params, Fine)

SelectDropdownOption ==
    \E params \in Requests : params.action = "select_dropdown_option" /\ Execute(params, Fine)

\* The capture may fail, and then the overlay stays; the overlays left behind
\* are bounded.
ScreenshotExtractElement ==
    \E params \in Requests, screenshot_ok \in BOOLEAN :
        /\ params.action = "screenshot_extract_element"
        /\ screenshot_ok \/ Len(page.container.overlays) <= MaxOverlays
        /\ Execute(params, [Fine EXCEPT !.screenshot_ok = screenshot_ok])

InvalidAction ==
    \E params \in Requests : params.action \notin Actions /\ Execute(params, Fine)

Next ==
    \/ OpenUrl
    \/ InputText
    \/ Click
    \/ ScrollTo
    \/ ExtractContent
    \/ GetDropdownOptions
    \/ SelectDropdownOption
    \/ ScreenshotExtractElement
    \/ InvalidAction
    \/ Receive
    \/ Destroy

Spec == Init /\ [][Next]_vars

-----------------------------------------------------------------------------
(* highlightElement: the placement of the numeric label, in CSS pixels *)

\* No browser session is under study.
NoBrowser ==
    /\ site = Blank
    /\ page = NewWindow(Blank)
    /\ session = NoSession
    /\ context = [selector_map |-> << >>]
    /\ request = NoRequest
    /\ response = NoResponse
    /\ effect = NoEffect
    /\ snapshot = NoSnapshot

labelWidth == 20
labelHeight == 16

\* parentIframe = null: nothing is added to the element's rectangle.
NoIframe == [top |-> 0, left |-> 0]

\* element.getBoundingClientRect() of the elements highlighted.
Rects ==
    [ top : {-10, 0, 10}, left : {-30, 0, 30},
      width : {10, 30, 100}, height : {10, 30} ]

\* parentIframe.getBoundingClientRect(), top and left.
IframeRects == {NoIframe, [top |-> 10, left |-> 10]}

\* window.innerWidth, window.innerHeight
Viewports == {[innerWidth |-> 50, innerHeight |-> 50]}

\* isTopElement of an element of the main document: elementFromPoint finds it
\* at the centre of its rectangle, which therefore lies in the viewport.
CentreInViewport(rect, viewport) ==
    /\ 0 <= 2 * rect.left + rect.width
    /\ 2 * rect.left + rect.width < 2 * viewport.innerWidth
    /\ 0 <= 2 * rect.top + rect.height
    /\ 2 * rect.top + rect.height < 2 * viewport.innerHeight

\* The rectangles and viewports highlightElement is called with: an element of
\* a frame is highlighted wherever it lies, one of the main document when it is
\* hit at its centre.
Geometries ==
    { g \in [rect : Rects, iframeRect : IframeRects,
             innerWidth : {v.innerWidth : v \in Viewports},
             innerHeight : {v.innerHeight : v \in Viewports}] :
        g.iframeRect = NoIframe =>
            CentreInViewport(g.rect, [innerWidth |-> g.innerWidth,
                                      innerHeight |-> g.innerHeight]) }

\* The overlay's corner: the rectangle's, moved by the frame's.
overlayTop(rect, iframeRect) == rect.top + iframeRect.top
overlayLeft(rect, iframeRect) == rect.left + iframeRect.left

\* "Adjust if box is too small"
TooSmall(rect) == rect.width < labelWidth + 4 \/ rect.height < labelHeight + 4

\* highlightElement, "Calculate label position": label.style.top and
\* label.style.left.
labelPosition(rect, iframeRect, innerWidth) ==
    LET top == overlayTop(rect, iframeRect)
        left == overlayLeft(rect, iframeRect)
        labelTop0 == IF TooSmall(rect) THEN top - labelHeight - 2 ELSE top + 2
        labelLeft0 == IF TooSmall(rect)
                      THEN left + rect.width - labelWidth
                      ELSE left + rect.width - labelWidth - 2
        labelTop == IF labelTop0 < 0 THEN top + 2 ELSE labelTop0
        labelLeft1 == IF labelLeft0 < 0 THEN left + 2 ELSE labelLeft0
        labelLeft == IF labelLeft1 + labelWidth > innerWidth
                     THEN left + rect.width - labelWidth - 2
                     ELSE labelLeft1
    IN  [drawn |-> TRUE, top |-> labelTop, left |-> labelLeft]

LabelInit ==
    /\ geometry \in Geometries
    /\ label = NoLabel
    /\ NoBrowser
    /\ NoHarness

\* highlightElement(element, index, parentIframe) appends the label.
HighlightElement ==
    /\ ~label.drawn
    /\ label' = labelPosition(geometry.rect, geometry.iframeRect, geometry.innerWidth)
    /\ UNCHANGED <<geometry, browser_vars, harness_vars>>

LabelNext == HighlightElement

LabelSpec == LabelInit /\ [][LabelNext]_vars

-----------------------------------------------------------------------------
(* run_multienv.distribute_tasks.  A dict is the sequence of its items in     *)
(* insertion order: [domain, examples] records with distinct domains.         *)

DomainNames == <<"chrome", "os", "vlc">>
ExampleNames == <<"a", "b", "c">>

Domains == { DomainNames[i] : i \in 1..MaxDomains }
ExampleIds == { ExampleNames[i] : i \in 1..MaxExamples }

\* The lists of example ids of one domain: no id twice.
ExampleLists ==
    { q \in UNION { [1..k -> ExampleIds] : k \in 0..MaxExamples } :
        \A i, j \in DOMAIN q : i # j => q[i] # q[j] }

\* The values of test_all_meta.
Metas ==
    { m \in UNION { [1..k -> [domain : Domains, examples : ExampleLists]] :
                    k \in 0..MaxDomains } :
        \A i, j \in DOMAIN m : i # j => m[i].domain # m[j].domain }

RECURSIVE all_tasks_from(_, _)
\* for domain, examples in test_all_meta.items(): for example_id in examples:
\*     all_tasks.append((domain, example_id))
all_tasks_from(meta, i) ==
    IF i > Len(meta) THEN << >>
    ELSE [ j \in 1..Len(meta[i].examples) |-> <<meta[i].domain, meta[i].examples[j]>> ]
         \o all_tasks_from(meta, i + 1)

all_tasks(meta) == all_tasks_from(meta, 1)

\* Mutant of tasks_per_env: the quotient is rounded down.
tasks_per_env_floor(n, envs) == n \div envs

\* math.ceil(len(all_tasks) / num_envs)
tasks_per_env(n, envs) == (n + envs - 1) \div envs

\* all_tasks[start_idx:end_idx], indices from 0; empty when start_idx >= end_idx.
Slice(tasks, start_idx, end_idx) ==
    IF start_idx >= end_idx THEN << >> ELSE SubSeq(tasks, start_idx + 1, end_idx)

Min(a, b) == IF a < b THEN a ELSE b

\* if domain not in env_tasks: env_tasks[domain] = []
\* env_tasks[domain].append(example_id)
AddTask(env_tasks, task) ==
    IF \E k \in DOMAIN env_tasks : env_tasks[k].domain = task[1]
    THEN LET k == CHOOSE k \in DOMAIN env_tasks : env_tasks[k].domain = task[1]
         IN  [env_tasks EXCEPT ![k].examples = Append(@, task[2])]
    ELSE Append(env_tasks, [domain |-> task[1], examples |-> <<task[2]>>])

RECURSIVE CollectTasks(_, _, _)
\* the loop over one environment's slice
CollectTasks(tasks, i, env_tasks) ==
    IF i > Len(tasks) THEN env_tasks
    ELSE CollectTasks(tasks, i + 1, AddTask(env_tasks, tasks[i]))

\* distribute_tasks(test_all_meta, num_envs)
distribute_tasks(meta, envs) ==
    LET tasks == all_tasks(meta)
        per_env == tasks_per_env(Len(tasks), envs)
    IN  [ e \in 1..envs |->
            CollectTasks(Slice(tasks, (e - 1) * per_env,
                               Min(e * per_env, Len(tasks))), 1, << >>) ]

DistributeInit ==
    /\ test_all_meta \in Metas
    /\ num_envs \in 1..MaxEnvs
    /\ distributed_tasks = NotDistributed
    /\ NoBrowser
    /\ NoOverlayCall

\* test(args, test_all_meta): distributed_tasks = distribute_tasks(...)
Test ==
    /\ ~distributed_tasks.done
    /\ distributed_tasks' =
          [done |-> TRUE, envs |-> distribute_tasks(test_all_meta, num_envs)]
    /\ UNCHANGED <<test_all_meta, num_envs, browser_vars, overlay_vars>>

DistributeNext == Test

DistributeSpec == DistributeInit /\ [][DistributeNext]_vars

-----------------------------------------------------------------------------
(* Claims about the snapshot (SnapshotSpec) *)

Indexed(tree) == { n \in DOMAIN tree : tree[n].highlightIndex # NoIndex }

RECURSIVE PreOrder(_, _), PreOrderAll(_, _, _)
PreOrderAll(tree, children, i) ==
    IF i > Len(children) THEN << >>
    ELSE PreOrder(tree, children[i]) \o PreOrderAll(tree, children, i + 1)
PreOrder(tree, n) == <<n>> \o PreOrderAll(tree, tree[n].children, 1)

PositionIn(seq, x) == CHOOSE i \in 1..Len(seq) : seq[i] = x

\* C1: in every tree build_dom_tree produces, the highlightIndex values of the
\* indexed elements are pairwise distinct, are exactly 0..k-1 for k indexed
\* elements, and increase strictly along the pre-order of the produced tree,
\* shadow-root and frame children included.
C1_IndicesDenseAndPreOrdered ==
    snapshot.taken =>
        LET tree == snapshot.element_tree
            order == PreOrder(tree, 1)
        IN  /\ \A n, m \in Indexed(tree) :
                   n # m => tree[n].highlightIndex # tree[m].highlightIndex
            /\ { tree[n].highlightIndex : n \in Indexed(tree) }
                   = 0..(Cardinality(Indexed(tree)) - 1)
            /\ \A n, m \in Indexed(tree) :
                   PositionIn(order, n) < PositionIn(order, m)
                       => tree[n].highlightIndex < tree[m].highlightIndex

\* Witness of C1: a snapshot with an indexed element and, after it, an indexed
\* element that lives in a shadow root or in a frame.
C1_Witness ==
    /\ snapshot.taken
    /\ \E n, m \in Indexed(snapshot.element_tree) :
           /\ snapshot.element_tree[n].highlightIndex = 0
           /\ snapshot.element_tree[m].highlightIndex = 1
           /\ page.dom[m].link \in {"shadow", "frame"}

\* C2: an accepted element visited by the snapshot has a highlight index iff it
\* is visible (non-zero rendered width and height, not display:none, not
\* visibility:hidden), interactive and topmost; the counter ends at the number
\* of assignments; an element of zero width or height has no index.
C2_IndexIffVisibleInteractiveTopmost ==
    snapshot.taken =>
        LET tree == snapshot.element_tree IN
        /\ \A n \in DOMAIN tree :
             IsElementNode(tree[n]) =>
               /\ (tree[n].highlightIndex # NoIndex)
                     <=> /\ page.dom[n].offsetWidth > 0
                         /\ page.dom[n].offsetHeight > 0
                         /\ page.dom[n].display # "none"
                         /\ page.dom[n].visibility # "hidden"
                         /\ isInteractiveElement(page.dom[n])
                         /\ isTopElement(page.dom, n)
               /\ (page.dom[n].offsetWidth = 0 \/ page.dom[n].offsetHeight = 0)
                     => tree[n].highlightIndex = NoIndex
        /\ snapshot.highlightIndex = Cardinality(Indexed(tree))

\* Witness of C2: a snapshot that visited an interactive element of zero width
\* and gave an index to another element after it.
C2_Witness ==
    /\ snapshot.taken
    /\ \E n, m \in DOMAIN snapshot.element_tree :
           /\ n < m
           /\ isInteractiveElement(page.dom[n])
           /\ page.dom[n].offsetWidth = 0
           /\ snapshot.element_tree[n].highlightIndex = NoIndex
           /\ snapshot.element_tree[m].highlightIndex = 0

TextRuns(tree) == { n \in DOMAIN tree : ~IsElementNode(tree[n]) }

RECURSIVE NearestIndexedAncestor(_, _)
\* The nearest proper ancestor of n that carries an index, 0 when there is none.
NearestIndexedAncestor(tree, n) ==
    LET p == tree[n].parent IN
    IF p = 0 THEN 0
    ELSE IF tree[p].highlightIndex # NoIndex THEN p
    ELSE NearestIndexedAncestor(tree, p)

\* How many times the text s is emitted in line, and in all lines.
OccurrencesInLine(line, s) == Cardinality({ i \in 1..Len(line.text) : line.text[i] = s })

RECURSIVE Occurrences(_, _, _)
Occurrences(lines, i, s) ==
    IF i > Len(lines) THEN 0
    ELSE OccurrencesInLine(lines[i], s) + Occurrences(lines, i + 1, s)

\* C10: every text run of the tree is emitted exactly once in the serialized
\* text: in the line of its nearest indexed ancestor when it has one, and as a
\* bare []:text line when it has none.
C10_TextEmittedOnceAtNearest ==
    snapshot.taken =>
        LET tree == snapshot.element_tree
            lines == snapshot.element_str
        IN  \A n \in TextRuns(tree) :
              LET a == NearestIndexedAncestor(tree, n) IN
              /\ Occurrences(lines, 1, tree[n].text) = 1
              /\ \E i \in 1..Len(lines) :
                   /\ OccurrencesInLine(lines[i], tree[n].text) = 1
                   /\ IF a = 0
                        THEN lines[i] = BareLine(tree[n])
                        ELSE lines[i].index = tree[a].highlightIndex

\* Witness of C10: a text run below two nested indexed elements, emitted in the
\* line of the inner one.
C10_Witness ==
    /\ snapshot.taken
    /\ \E n \in TextRuns(snapshot.element_tree) :
         LET tree == snapshot.element_tree
             a == NearestIndexedAncestor(tree, n)
         IN  /\ a # 0
             /\ NearestIndexedAncestor(tree, a) # 0
             /\ \E i \in 1..Len(snapshot.element_str) :
                    /\ snapshot.element_str[i].index = tree[a].highlightIndex
                    /\ snapshot.element_str[i].text = <<tree[n].text>>


\* C11: remove_highlight is idempotent.  After one call the overlay container
\* is absent and nothing else of the window has changed; a second call, or a
\* call when there is no container, changes nothing more.
C11_RemoveHighlightIdempotent ==
    LET once == remove_highlight(page)
        twice == remove_highlight(once)
    IN  /\ ~once.container.present
        /\ once = [page EXCEPT !.container = NoContainer]
        /\ twice = once

\* Witness of C11: remove_highlight has removed the container a highlighting
\* snapshot had filled; the marks on the elements remain.
C11_Witness ==
    /\ snapshot.taken
    /\ ~page.container.present
    /\ \E n \in DOMAIN page.dom : page.dom[n].highlight_id # NoAttr

\* The segment C18 describes for element n: its tag, and its 1-based position
\* among the siblings of that tag whenever it is not the only one.
ClaimedSegment(dom, n) ==
    LET alike == { s \in DOMAIN dom :
                     /\ dom[s].parent = dom[n].parent
                     /\ dom[s].link = dom[n].link
                     /\ IsElement(dom, s)
                     /\ dom[s].tagName = dom[n].tagName }
    IN  IF Cardinality(alike) > 1
        THEN dom[n].tagName \o "[" \o ToString(SameTagBefore(dom, n) + 1) \o "]"
        ELSE dom[n].tagName

RECURSIVE ClaimedLocator(_, _)
\* The segments from element n up to the nearest shadow-root or frame boundary
\* (the root of the document it lives in), that boundary not crossed.
ClaimedLocator(dom, n) ==
    IF n = 1 THEN <<"html", "body">>
    ELSE IF dom[n].link = "shadow" THEN <<ClaimedSegment(dom, n)>>
    ELSE IF dom[n].link = "frame" THEN <<"html", "body", ClaimedSegment(dom, n)>>
    ELSE Append(ClaimedLocator(dom, dom[n].parent), ClaimedSegment(dom, n))

\* C18: each segment of a locator is the element's tag name, with its 1-based
\* position among its same-tag siblings whenever it has another sibling of
\* that tag and with no ordinal only when it has none; the segments run from
\* the element up to the nearest shadow-root or frame boundary, not across it.
C18_LocatorSegments ==
    snapshot.taken =>
        \A n \in DOMAIN snapshot.element_tree :
            IsElementNode(snapshot.element_tree[n]) =>
                snapshot.element_tree[n].xpath = ClaimedLocator(page.dom, n)

\* C19: within one snapshot any two distinct indexed elements have distinct,
\* non-empty locators in the selector map, also across shadow roots and frames.
C19_LocatorsDistinctAndNonEmpty ==
    snapshot.taken =>
        \A i, j \in DOMAIN snapshot.selector_map :
            /\ snapshot.selector_map[i].xpath # << >>
            /\ i # j => snapshot.selector_map[i].xpath # snapshot.selector_map[j].xpath

\* The integer a tabindex attribute of the modelled documents stands for.
TabIndexValue(s) ==
    CASE s = "0"  -> 0
      [] s = "-1" -> -1
      [] s = "-2" -> -2

\* C20: an element with none of the other interactivity signals (tag, role,
\* handler; the modelled elements carry no ARIA state attribute and are not
\* draggable) is classified interactive exactly when it has an explicit
\* tabindex that is a non-negative integer; a negative tabindex of any value
\* and an absent tabindex do not make it interactive.
C20_TabindexClassifies ==
    snapshot.taken =>
        \A n \in DOMAIN snapshot.element_tree :
            LET el == page.dom[n] IN
            ( /\ IsElementNode(snapshot.element_tree[n])
              /\ el.tagName \notin interactiveElements
              /\ el.role \notin interactiveRoles
              /\ ~el.handler )
            => ( snapshot.element_tree[n].isInteractive
                   <=> (el.tabindex # NoAttr /\ TabIndexValue(el.tabindex) >= 0) )

-----------------------------------------------------------------------------
(* Claims about the dispatcher (Spec) *)

IndexCommands ==
    {"click", "right_click", "double_click", "input_text", "scroll_to",
     "get_dropdown_options", "select_dropdown_option"}

NoPageOpen == "No page open; call open_url first."

CaptureFailed == "Page.screenshot: Timeout exceeded"

InvalidActionError(action) == "Invalid action: \"" \o action \o "\" is not recognized."

\* The call the caller sends next, with page and capture responding.
Then(params) == execute(params, session, context, page, snapshot, Fine)

\* C3: round trip.  A click, right_click, double_click or scroll_to carrying
\* index i, issued immediately after a successful snapshot that assigned i to
\* an element (in the main document, in a shadow root or in a same-origin
\* frame), with the document unchanged, acts on that same element: not on
\* another, not on none.
C3_IndexActsOnSnapshotElement ==
    ( /\ request.action = "screenshot_extract_element"
      /\ response.success )
    => \A i \in DOMAIN page.clickable_elements :
         \A action \in {"click", "right_click", "double_click", "scroll_to"} :
            Then(Request(action, i, NoText)).effect.target = page.clickable_elements[i]

\* C4: a command that carries an index which is not a key of the session's
\* selector map, the empty map included, returns
\* {success: false, error: "Element does not exist"} and performs no document
\* operation.
C4_AbsentIndexIsRejected ==
    ( /\ request.action \in IndexCommands
      /\ request.index # NoIndex
      /\ request.index \notin DOMAIN context.selector_map )
    => /\ response = Response(FALSE, "Element does not exist")
       /\ effect.ops = << >>

\* The request carries the parameters its command reads.
Complete(params) ==
    /\ params.action \in IndexCommands => params.index # NoIndex
    /\ params.action \in {"input_text", "select_dropdown_option"} => params.text # NoText

\* C5: a command other than open_url, sent with the parameters it reads while
\* no page is open, returns success = false with the "no page open" error and
\* leaves the state no-page.
C5_NoPageCommandsReportNoPageOpen ==
    ( /\ request.action \in Actions \ {"open_url"}
      /\ Complete(request)
      /\ session.current_page = 0 )
    => response = Response(FALSE, NoPageOpen)

\* C6: a request whose action is present but is not one of the commands,
\* whatever index and text it carries and whatever the session state, returns
\* success = false with the invalid-action error.
C6_UnknownActionIsInvalidAction ==
    ( /\ request # NoRequest
      /\ request.action \notin Actions \cup {NoAction} )
    => response = Response(FALSE, InvalidActionError(request.action))

\* C7: after every successful open_url the session's selector map is empty.
C7_OpenUrlClearsSelectorMap ==
    (request.action = "open_url" /\ response.success)
    => context.selector_map = << >>

\* C8: in page-ready, with a page whose capture succeeds,
\* screenshot_extract_element (sent without an index) returns success = true
\* with an image and the serialized text, and the session's selector map is the
\* map of that snapshot; the first call after a navigation included.
C8_SnapshotCommandSucceeds ==
    ( /\ request.action = "screenshot_extract_element"
      /\ request.index = NoIndex
      /\ session.current_page # 0
      /\ response.error # CaptureFailed )
    => /\ response.success
       /\ response.image
       /\ snapshot.taken
       /\ response.text = snapshot.element_str
       /\ context.selector_map = snapshot.selector_map

\* C9: two consecutive screenshot_extract_element calls on the same page, both
\* with a working capture and no navigation in between, return the same
\* serialized text and leave the same index-to-locator assignment.
C9_ConsecutiveSnapshotsAgree ==
    ( /\ request.action = "screenshot_extract_element"
      /\ request.index = NoIndex
      /\ session.current_page # 0
      /\ response.error # CaptureFailed )
    => LET again == Then(request)
       IN  /\ again.response.text = response.text
           /\ again.context.selector_map = context.selector_map

GotoFailed == "Timeout 15000ms exceeded."

\* A step in which execute is called and returns.
Called == request = NoRequest /\ request' # NoRequest

\* C12: execute never lets an exception out.  Every call returns a response
\* object; when something raised, in the parameter checks, the index lookup or
\* a page operation, the response has success = false and a message, and what
\* had already happened stays: the page a failed navigation opened, the
\* selector map and the overlay of a snapshot whose capture failed.
C12_ExceptionsBecomeResponses ==
    [][ Called =>
          /\ DOMAIN response' = DOMAIN NoResponse
          /\ response'.success \in BOOLEAN
          /\ response'.error # NoAttr => (~response'.success /\ response'.error # "")
          /\ response'.error = GotoFailed =>
                /\ session'.pages = session.pages + 1
                /\ session'.current_page = session.current_page
          /\ response'.error = CaptureFailed =>
                /\ snapshot'.taken
                /\ context'.selector_map = snapshot'.selector_map
                /\ page'.container.present = (snapshot'.highlightIndex > 0) ]_vars

\* Witness of C12: a navigation that timed out was reported as a response and
\* left its page open.
C12_Witness ==
    /\ request.action = "open_url"
    /\ response = Response(FALSE, GotoFailed)
    /\ session.pages = 1
    /\ session.current_page = 0

\* The element the index of the request resolves to, NoNode when to none.
Resolved ==
    IF session.current_page # 0 /\ request.index \in DOMAIN context.selector_map
    THEN query_selector(page.dom, context.selector_map[request.index].xpath)
    ELSE NoNode

OptionTexts(el) == { Trim(options(el)[i]) : i \in DOMAIN options(el) }

\* C13: select_dropdown_option on an index that resolves to a select element
\* returns success = false with the error "Option not found" when the text is
\* the trimmed text of none of its options, and success = true when it is the
\* trimmed text of one.
C13_SelectDropdownOptionAnswers ==
    ( /\ request.action = "select_dropdown_option"
      /\ request.text # NoText
      /\ Resolved \in DOMAIN page.dom
      /\ page.dom[Resolved].tagName = "select" )
    => IF request.text \in OptionTexts(page.dom[Resolved])
       THEN response.success
       ELSE response = Response(FALSE, "Option not found")

\* C14: destroy is safe in every session state.  The browser is closed and the
\* driver stopped at most once each; once destroy has returned the session has
\* no page, no browsing context, no browser, no running driver and no selector
\* map, and every later command returns success = false.
C14_DestroyIsSafe ==
    /\ session.closed <= 1
    /\ session.stopped <= 1
    /\ session.destroys > 0 =>
          /\ ~session.browser
          /\ ~session.browser_context
          /\ session.current_page = 0
          /\ session.playwright # "started"
          /\ context.selector_map = << >>
          /\ request # NoRequest => ~response.success

\* Witness of C14: a session that had a page open was destroyed twice, the
\* browser closed once, and a navigation sent afterwards failed.
C14_Witness ==
    /\ session.destroys = 2
    /\ session.closed = 1
    /\ session.stopped = 1
    /\ request.action = "open_url"
    /\ request.text # NoText
    /\ ~response.success

\* C15: a request that omits a parameter its command requires returns
\* success = false with an error naming the missing parameter, and performs no
\* page operation.
C15_MissingParameterIsNamed ==
    /\ (request.action \in IndexCommands /\ request.index = NoIndex)
          => /\ response = Response(FALSE, "index parameter is required")
             /\ effect.ops = << >>
    /\ (request.action = "open_url" /\ request.text = NoText)
          => /\ response = Response(FALSE, "text (url) parameter is required")
             /\ effect.ops = << >>
    /\ ( /\ request.action \in {"input_text", "select_dropdown_option"}
         /\ request.index # NoIndex
         /\ request.text = NoText )
          => /\ response = Response(FALSE, "text parameter is required")
             /\ effect.ops = << >>

\* C16: after a snapshot command has replaced the session's selector map, the
\* keys of the map are exactly the highlight indices that snapshot assigned,
\* each mapped to the locator and tag of the element that received it; no
\* entry of an earlier snapshot is left.
C16_SelectorMapIsTheSnapshotsMap ==
    ( /\ request.action = "screenshot_extract_element"
      /\ response.success \/ response.error = CaptureFailed )
    => /\ DOMAIN context.selector_map = DOMAIN page.clickable_elements
       /\ DOMAIN context.selector_map =
              { snapshot.element_tree[n].highlightIndex :
                    n \in Indexed(snapshot.element_tree) }
       /\ \A i \in DOMAIN context.selector_map :
            LET n == page.clickable_elements[i] IN
            /\ snapshot.element_tree[n].highlightIndex = i
            /\ context.selector_map[i].xpath = getXPathTree(page.dom, n)
            /\ context.selector_map[i].tagName = page.dom[n].tagName

\* Witness of C16: the snapshot of a blank second page has left the session's
\* map empty, on a site whose own document is not blank.
C16_Witness ==
    /\ request.action = "screenshot_extract_element"
    /\ response.success
    /\ session.current_page = 2
    /\ page.dom = Blank
    /\ site # Blank
    /\ context.selector_map = << >>

Installed(ops) == \E i \in DOMAIN ops : ops[i] = "evaluate_handle"

\* C17: the snapshot functions are installed only when the marker function is
\* absent.  A screenshot_extract_element call installs them exactly when the
\* page it runs on does not have them; once installed they stay until a
\* navigation (or the teardown) replaces the page, so they are installed at
\* most once per execution context; and no snapshot is taken on a page that
\* lacks them.
C17_InstalledOncePerContext ==
    [][ /\ ( /\ Called
             /\ request'.action = "screenshot_extract_element"
             /\ session.current_page # 0
             /\ response'.error # "Element does not exist" )
           => /\ Installed(effect'.ops) <=> ~page.functions
              /\ page'.functions
        /\ (Called /\ request'.action # "screenshot_extract_element")
           => ~Installed(effect'.ops)
        /\ (page.functions /\ ~page'.functions)
           => \/ request'.action = "open_url" /\ response'.success
              \/ session'.destroys > session.destroys
        /\ snapshot'.taken => page'.functions ]_vars

\* Witness of C17: on the second page of the session a snapshot command found
\* the functions in place, did not install them and took a snapshot.
C17_Witness ==
    /\ request.action = "screenshot_extract_element"
    /\ session.current_page = 2
    /\ ~Installed(effect.ops)
    /\ page.functions
    /\ snapshot.taken

\* C21: once a command has been dispatched and its result returned, the
\* selector map is invalid until the next snapshot: an index command issued
\* after a command other than screenshot_extract_element, and before a new
\* snapshot, does not resolve through the map of the earlier snapshot.
C21_MapInvalidAfterCommand ==
    ( /\ request.action \in Actions \ {"screenshot_extract_element"}
      /\ response.success )
    => \A params \in Requests :
          ( /\ params.action \in IndexCommands
            /\ params.index # NoIndex )
          => /\ selector_lookup(params, context).selector_xpath = << >>
             /\ Then(params).effect.target = NoNode

\* C23: whenever a screenshot_extract_element call returns, with success or
\* with failure, the overlay container is absent from the page.
C23_NoOverlayAfterSnapshotCommand ==
    request.action = "screenshot_extract_element" => ~page.container.present

\* C24: an open_url that fails (the url missing, no browsing context, the
\* navigation timing out) returns success = false with an error message and
\* leaves the session's current page, the page itself and the selector map as
\* they were before the call; failing in state no-page leaves no-page.
C24_FailedOpenUrlChangesNothing ==
    [][ ( /\ Called
          /\ request'.action = "open_url"
          /\ ~response'.success )
        => /\ response'.error \notin {NoAttr, ""}
           /\ session'.current_page = session.current_page
           /\ context' = context
           /\ page' = page ]_vars

\* A navigation timed out on a session that has a page open and a selector
\* map from a snapshot of it.
C24_Witness ==
    /\ request.action = "open_url"
    /\ response = Response(FALSE, GotoFailed)
    /\ session.current_page = 1
    /\ session.pages = 2
    /\ context.selector_map # << >>

\* C25: the commands that require no index (open_url, extract_content,
\* screenshot_extract_element) have the same outcome whether or not the
\* request carries an index and whatever its value: a stray index that is not
\* in the selector map does not make them fail.
C25_StrayIndexIsIgnored ==
    request = NoRequest =>
        \A params \in Requests :
            params.action \in {"open_url", "extract_content", "screenshot_extract_element"}
            => Then(params) = Then([params EXCEPT !.index = NoIndex])

\* C26: after any sequence of open_url calls, successful or failed, the
\* browsing context holds at most one open page, the one referenced as the
\* current page.
C26_AtMostOneOpenPage ==
    /\ session.pages <= 1
    /\ session.pages = 1 => session.current_page = 1

-----------------------------------------------------------------------------
(* Claims about the label of an overlay (LabelSpec) *)

\* The label's nominal place: the top-right corner inside the box, or just
\* outside the box when the box is smaller than the label plus margin.
NominalLabel(rect, iframeRect) ==
    IF rect.width < labelWidth + 4 \/ rect.height < labelHeight + 4
    THEN [ top |-> overlayTop(rect, iframeRect) - labelHeight - 2,
           left |-> overlayLeft(rect, iframeRect) + rect.width - labelWidth ]
    ELSE [ top |-> overlayTop(rect, iframeRect) + 2,
           left |-> overlayLeft(rect, iframeRect) + rect.width - labelWidth - 2 ]

\* C22: for every element rectangle and viewport size the label drawn lies
\* inside the viewport: its top is >= 0, its left is >= 0 and its left plus
\* the label width is <= the viewport width; it sits at its nominal place (the
\* top-right corner inside the box, just outside a box that is too small)
\* whenever that place lies inside the viewport.
C22_LabelInsideViewport ==
    label.drawn =>
        LET nominal == NominalLabel(geometry.rect, geometry.iframeRect) IN
        /\ label.top >= 0
        /\ label.left >= 0
        /\ label.left + labelWidth <= geometry.innerWidth
        /\ ( /\ nominal.top >= 0
             /\ nominal.left >= 0
             /\ nominal.left + labelWidth <= geometry.innerWidth )
           => (label.top = nominal.top /\ label.left = nominal.left)

-----------------------------------------------------------------------------
(* Claims about distribute_tasks (DistributeSpec) *)

\* How often the task (domain, example_id) occurs in the dictionaries envs.
TimesGiven(envs, domain, example_id) ==
    Cardinality({ w \in (DOMAIN envs) \X (1..MaxDomains) \X (1..MaxExamples) :
                    /\ w[2] \in DOMAIN envs[w[1]]
                    /\ envs[w[1]][w[2]].domain = domain
                    /\ w[3] \in DOMAIN envs[w[1]][w[2]].examples
                    /\ envs[w[1]][w[2]].examples[w[3]] = example_id })

\* The examples test_all_meta lists for a domain, << >> for a domain it lacks.
ExamplesOf(meta, domain) ==
    IF \E k \in DOMAIN meta : meta[k].domain = domain
    THEN meta[CHOOSE k \in DOMAIN meta : meta[k].domain = domain].examples
    ELSE << >>

\* C27: with num_envs >= 1, distribute_tasks returns exactly num_envs task
\* dictionaries that partition the input: every (domain, example_id) pair of
\* the input is in exactly one environment's dictionary, no other pair is in
\* any, and within each domain of each environment the examples keep their
\* input order.
C27_DistributeTasksPartitions ==
    distributed_tasks.done =>
        LET envs == distributed_tasks.envs IN
        /\ Len(envs) = num_envs
        /\ \A domain \in Domains, example_id \in ExampleIds :
              TimesGiven(envs, domain, example_id) =
                 IF \E j \in DOMAIN ExamplesOf(test_all_meta, domain) :
                        ExamplesOf(test_all_meta, domain)[j] = example_id
                 THEN 1 ELSE 0
        /\ \A e \in DOMAIN envs : \A k \in DOMAIN envs[e] :
              /\ envs[e][k].domain \in Domains
              /\ envs[e][k].examples # << >>
              /\ \A l \in DOMAIN envs[e] : l # k => envs[e][l].domain # envs[e][k].domain
              /\ \A a, b \in DOMAIN envs[e][k].examples :
                    a < b =>
                      PositionIn(ExamplesOf(test_all_meta, envs[e][k].domain),
                                 envs[e][k].examples[a])
                      < PositionIn(ExamplesOf(test_all_meta, envs[e][k].domain),
                                   envs[e][k].examples[b])

\* Three tasks of two domains went to two environments, the second domain's
\* examples to both.
C27_Witness ==
    /\ distributed_tasks.done
    /\ num_envs = 2
    /\ Len(all_tasks(test_all_meta)) = 3
    /\ \E k \in DOMAIN distributed_tasks.envs[1] :
          \E l \in DOMAIN distributed_tasks.envs[2] :
             distributed_tasks.envs[1][k].domain = distributed_tasks.envs[2][l].domain

\* C28: the tasks are distributed evenly: for every number of tasks and every
\* num_envs >= 1 the numbers of tasks of any two environments differ by at
\* most one.
C28_DistributeTasksEvenly ==
    distributed_tasks.done =>
        \A e, f \in DOMAIN distributed_tasks.envs :
            Len(all_tasks(distributed_tasks.envs[e]))
              - Len(all_tasks(distributed_tasks.envs[f])) <= 1

=============================================================================
